---- MODULE Spec2Model ----
(***************************************************************************)
(* Videoflix: the video processing pipeline (videos/tasks.py,              *)
(* videos/utils.py), the post_save / pre_delete signal handlers            *)
(* (videos/signals.py), the RQ job queue, the cached published-video       *)
(* listing and the HLS manifest and segment views (videos/views.py).       *)
(*                                                                         *)
(* One step of a worker is one database statement, one subprocess call or  *)
(* one cache call of process_video_task.  Video.save() follows Django:     *)
(* with update_fields it is an UPDATE that raises DatabaseError when no    *)
(* row matches; without update_fields it is an UPDATE that falls back to   *)
(* an INSERT when no row matches, and post_save then fires with            *)
(* created=True.                                                           *)
(***************************************************************************)
EXTENDS Integers, Sequences, FiniteSets, TLC

\* ------------------------------------------------------------------ bounds
MaxAssets == 2        \* videos created through the ingress
MaxFiles == 1         \* of these, videos created with a source file
NumWorkers == 2       \* RQ worker processes
NumReaders == 1       \* concurrent listing requests
MaxRedeliver == 1     \* redeliveries (crash recovery and duplicate delivery)
MaxDeletes == 1       \* Video.delete() calls
MaxRequests == 1      \* streaming requests

Ids == 1..MaxAssets
Workers == 1..NumWorkers
Readers == 1..NumReaders

\* ------------------------------------------------------- program constants
\* QUALITY_SETTINGS, in dict order
Tiers == <<"480p", "720p", "1080p">>
NumTiers == Len(Tiers)
TierSet == {Tiers[i] : i \in 1..NumTiers}

NoVideo == [absent |-> TRUE]
NoPayload == [absent |-> TRUE]
NoRequest == [absent |-> TRUE]

\* views.py: cache.set(cache_key, videos_data, timeout=300)
CacheTimeout == 300

VARIABLES
    video,      \* the Video table: id -> row or NoVideo
    hlsq,       \* the HLSQuality table: id -> tier -> number of rows
    disk,       \* files under MEDIA_ROOT
    queue,      \* the RQ 'default' queue: sequence of video ids
    nextId,     \* next primary key
    cache,      \* value under 'video_list_published' or NoPayload
    pc,         \* worker -> position in process_video_task
    job,        \* worker -> video_id argument of its running job
    inst,       \* worker -> its in-memory Video instance
    idx,        \* worker -> index into QUALITY_SETTINGS in generate_hls_streams
    run,        \* worker -> what happened in its current run (history)
    rpc,        \* reader -> position in video_list
    rdata,      \* reader -> videos_data
    rhist,      \* reader -> what was true when its read started (history)
    gw,         \* the last streaming request and its response
    hist        \* history of the whole system

vars == <<video, hlsq, disk, queue, nextId, cache, pc, job, inst, idx, run,
          rpc, rdata, rhist, gw, hist>>
storeVars == <<video, hlsq, disk, queue, nextId>>
workerVars == <<pc, job, inst, idx, run>>
readerVars == <<rpc, rdata, rhist>>

\* ------------------------------------------------------------------ helpers
Exists(a) == video[a] # NoVideo

NoRun == [ran |-> {}, failed |-> 0, exc |-> "none", allok |-> TRUE,
          fromReady |-> FALSE, fromPartial |-> FALSE, alone |-> TRUE,
          dup |-> FALSE, trans |-> 0, hmiss |-> FALSE,
          probe |-> "none", praised |-> FALSE, thumb |-> "none"]

\* rows of HLSQuality for video a
Descriptors(a) == {t \in TierSet : hlsq[a][t] > 0}
OnePerTier(a) == \A t \in TierSet : hlsq[a][t] = 1

\* Ready: transcoding finished and the output directory is recorded
Ready(a) == Exists(a) /\ video[a].hls_path /\ ~video[a].is_processing

\* a worker is inside process_video_task
Active(w) == pc[w] \notin {"idle", "done"}
Free(w) == ~Active(w)
ActiveOn(a) == {w \in Workers : Active(w) /\ job[w] = a}
Queued(a) == \E i \in 1..Len(queue) : queue[i] = a

\* what a listing request has seen and done (history)
NoRead == [floor |-> 0, gone |-> {}, cached |-> NoPayload, published |-> {},
           rank |-> [a \in Ids |-> 0], stored |-> NoPayload,
           cred |-> "unset"]

Init ==
    /\ video = [a \in Ids |-> NoVideo]
    /\ hlsq = [a \in Ids |-> [t \in TierSet |-> 0]]
    /\ disk = [a \in Ids |-> [source |-> FALSE, upthumb |-> FALSE,
                              genthumb |-> FALSE, hlsdir |-> FALSE,
                              hlsfiles |-> {}]]
    /\ queue = <<>>
    /\ nextId = 1
    /\ cache = NoPayload
    /\ pc = [w \in Workers |-> "idle"]
    /\ job = [w \in Workers |-> 0]
    /\ inst = [w \in Workers |-> NoVideo]
    /\ idx = [w \in Workers |-> 0]
    /\ run = [w \in Workers |-> NoRun]
    /\ rpc = [r \in Readers |-> "idle"]
    /\ rdata = [r \in Readers |-> NoPayload]
    /\ rhist = [r \in Readers |-> NoRead]
    /\ gw = NoRequest
    /\ hist = [deleted |-> {}, deletes |-> 0, redelivered |-> 0,
               transitions |-> 0, invalidated |-> 0,
               crashed |-> {}, crashedPartial |-> {}, started |-> [a \in Ids |-> 0],
               files |-> 0, requests |-> 0,
               inserts |-> [a \in Ids |-> 0], enq |-> [a \in Ids |-> 0],
               clock |-> 0, pub |-> [a \in Ids |-> {}]]

\* ------------------------------------------------------------ the database
\* Model.save() without update_fields (utils.py: video.save()): an UPDATE of
\* every column; when no row matches, an INSERT, after which post_save fires
\* with created=True and trigger_video_processing runs on the same instance.
Created(a) == ~Exists(a)

\* models.py created_at = DateTimeField(auto_now_add=True): an INSERT stamps
\* the row with the current time
Inserted(row, created) ==
    IF created THEN [row EXCEPT !.created_at = hist.clock + 1] ELSE row

\* mutant: the handler enqueues without setting the flag
TriggerRowUnflagged(row, created) == row

\* signals.py trigger_video_processing: the instance after the handler
TriggerRow(row, created) ==
    IF created /\ row.video_file THEN [row EXCEPT !.is_processing = TRUE] ELSE row

\* mutant: the handler does not look at created
TriggerQueueOnSave(q, a, row, created) ==
    IF row.video_file THEN Append(q, a) ELSE q

\* signals.py trigger_video_processing -> tasks.py enqueue_video_processing
TriggerQueue(q, a, row, created) ==
    IF created /\ row.video_file THEN Append(q, a) ELSE q

\* History of a save of row for video a: INSERTs of a row with a source file
\* and jobs enqueued by the post_save handler
SaveHist(h, a, row, created) ==
    [h EXCEPT !.clock = IF created THEN @ + 1 ELSE @,
              !.inserts[a] = IF created /\ row.video_file THEN @ + 1 ELSE @,
              !.enq[a] = @ + Len(TriggerQueue(queue, a, row, created)) - Len(queue)]

\* mutant: the table has no uniqueness constraint
NoUniqueConstraint(a, t) == FALSE

\* models.py HLSQuality.Meta.unique_together = ['video', 'quality']
UniqueViolation(a, t) == hlsq[a][t] > 0

\* HLSQuality.video is a ForeignKey to Video: the parent row must exist
ForeignKeyViolation(a) == ~Exists(a)

\* A new Video row as the ingress creates it (model defaults)
NewRow(withFile, withThumb) ==
    [video_file |-> withFile,
     thumbnail |-> IF withThumb THEN "uploaded" ELSE "none",
     hls_path |-> FALSE, duration |-> "none",
     is_published |-> TRUE, is_processing |-> FALSE, created_at |-> 0]

\* Outcomes of a subprocess.run(..., check=True) on the source file of a:
\* "ok", "fail" (CalledProcessError: non-zero exit), "notool"
\* (FileNotFoundError: the binary is not installed).  The tool cannot
\* succeed once the source file is gone.
ToolOutcomes(a) ==
    IF disk[a].source THEN {"ok", "fail", "notool"} ELSE {"fail", "notool"}

\* --------------------------------------------------------------- ingress
\* Video.objects.create(...) followed by the post_save handler
CreateVideo(withFile, withThumb) ==
    /\ nextId <= MaxAssets
    /\ withFile => hist.files < MaxFiles
    /\ LET a == nextId
           row == Inserted(NewRow(withFile, withThumb), TRUE)
       IN /\ video' = [video EXCEPT ![a] = TriggerRow(row, TRUE)]
          /\ queue' = TriggerQueue(queue, a, row, TRUE)
          /\ disk' = [disk EXCEPT ![a].source = withFile,
                                  ![a].upthumb = withThumb]
    /\ nextId' = nextId + 1
    /\ hist' = [SaveHist(hist, nextId, NewRow(withFile, withThumb), TRUE)
                  EXCEPT !.files = IF withFile THEN @ + 1 ELSE @]
    /\ UNCHANGED <<hlsq, cache>>
    /\ UNCHANGED workerVars
    /\ UNCHANGED readerVars
    /\ UNCHANGED gw

\* signals.py delete_video_files: the files left after the pre_delete handler
FilesAfterDelete(a, row) ==
    [source |-> IF row.video_file THEN FALSE ELSE disk[a].source,
     upthumb |-> IF row.thumbnail = "uploaded" THEN FALSE ELSE disk[a].upthumb,
     genthumb |-> IF row.thumbnail = "generated" THEN FALSE ELSE disk[a].genthumb,
     hlsdir |-> IF row.hls_path THEN FALSE ELSE disk[a].hlsdir,
     hlsfiles |-> IF row.hls_path THEN {} ELSE disk[a].hlsfiles]

\* Video.delete(): pre_delete handler, cascade to HLSQuality, row removal
DeleteVideo(a) ==
    /\ Exists(a)
    /\ hist.deletes < MaxDeletes
    /\ disk' = [disk EXCEPT ![a] = FilesAfterDelete(a, video[a])]
    /\ hlsq' = [hlsq EXCEPT ![a] = [t \in TierSet |-> 0]]
    /\ video' = [video EXCEPT ![a] = NoVideo]
    /\ hist' = [hist EXCEPT !.deleted = @ \cup {a}, !.deletes = @ + 1]
    /\ UNCHANGED <<queue, nextId, cache>>
    /\ UNCHANGED workerVars
    /\ UNCHANGED readerVars
    /\ UNCHANGED gw

\* ------------------------------------------------------------ the RQ queue
\* A free worker (the lowest-numbered one: workers are interchangeable) takes
\* the next job and calls process_video_task(video_id)
Start(w) ==
    /\ Free(w)
    /\ \A x \in Workers : Free(x) => w <= x
    /\ queue # <<>>
    /\ LET a == Head(queue)
       IN /\ job' = [job EXCEPT ![w] = a]
          /\ run' = [x \in Workers |->
                       IF x = w THEN [NoRun EXCEPT !.alone = (ActiveOn(a) = {})]
                       ELSE IF x \in ActiveOn(a) THEN [run[x] EXCEPT !.alone = FALSE]
                       ELSE run[x]]
          /\ hist' = [hist EXCEPT !.started[a] = @ + 1]
    /\ queue' = Tail(queue)
    /\ pc' = [pc EXCEPT ![w] = "get"]
    /\ inst' = [inst EXCEPT ![w] = NoVideo]
    /\ idx' = [idx EXCEPT ![w] = 0]
    /\ UNCHANGED <<video, hlsq, disk, nextId, cache>>
    /\ UNCHANGED readerVars
    /\ UNCHANGED gw

\* The worker process dies inside a run; the durable job is delivered again
Crash(w) ==
    /\ Active(w)
    /\ hist.redelivered < MaxRedeliver
    /\ queue' = Append(queue, job[w])
    /\ hist' = [hist EXCEPT
                  !.redelivered = @ + 1,
                  !.crashed = @ \cup {job[w]},
                  !.crashedPartial =
                     IF Descriptors(job[w]) \notin {{}, TierSet}
                     THEN @ \cup {job[w]} ELSE @]
    /\ pc' = [pc EXCEPT ![w] = "idle"]
    /\ job' = [job EXCEPT ![w] = 0]
    /\ inst' = [inst EXCEPT ![w] = NoVideo]
    /\ idx' = [idx EXCEPT ![w] = 0]
    /\ run' = [run EXCEPT ![w] = NoRun]
    /\ UNCHANGED <<video, hlsq, disk, nextId, cache>>
    /\ UNCHANGED readerVars
    /\ UNCHANGED gw

\* At-least-once delivery: a job that was already delivered is delivered again
Redeliver(a) ==
    /\ hist.started[a] > 0
    /\ hist.redelivered < MaxRedeliver
    /\ queue' = Append(queue, a)
    /\ hist' = [hist EXCEPT !.redelivered = @ + 1]
    /\ UNCHANGED <<video, hlsq, disk, nextId, cache>>
    /\ UNCHANGED workerVars
    /\ UNCHANGED readerVars
    /\ UNCHANGED gw

\* --------------------------------------------------- process_video_task
\* tasks.py line 36: video = Video.objects.get(id=video_id);
\* Video.DoesNotExist is caught by the first except clause (pass)
TaskGet(w) ==
    /\ pc[w] = "get"
    /\ LET a == job[w]
       IN IF Exists(a)
          THEN /\ inst' = [inst EXCEPT ![w] = video[a]]
               /\ run' = [run EXCEPT
                     ![w].fromReady = video[a].hls_path /\ ~video[a].is_processing,
                     ![w].fromPartial = a \in hist.crashedPartial
                                        /\ Descriptors(a) \notin {{}, TierSet}]
               /\ pc' = [pc EXCEPT ![w] = "duration"]
          ELSE /\ run' = [run EXCEPT ![w].exc = "DoesNotExist"]
               /\ pc' = [pc EXCEPT ![w] = "done"]
               /\ UNCHANGED inst
    /\ UNCHANGED <<job, idx, cache, hist>>
    /\ UNCHANGED storeVars
    /\ UNCHANGED readerVars
    /\ UNCHANGED gw

\* mutant: the probed value is dropped
DurationDropped(outcome) == "none"

\* utils.py get_video_duration: the value returned for a tool outcome
\* (CalledProcessError is caught and None returned)
DurationOf(outcome) == IF outcome = "ok" THEN "secs" ELSE "none"

\* mutant: every failure of the probe is caught
ProbeNeverRaises(outcome) == FALSE

\* utils.py get_video_duration lines 179-192: only CalledProcessError is
\* caught; FileNotFoundError (no ffprobe) and ValueError (float() of the
\* output) leave the function as exceptions
ProbeRaises(outcome) == outcome \in {"notool", "unparsable"}

\* Outcomes of the ffprobe call: those of any tool and "unparsable" (exit
\* status 0 with output that float() rejects: ValueError)
ProbeOutcomes(a) ==
    IF disk[a].source THEN ToolOutcomes(a) \cup {"unparsable"} ELSE ToolOutcomes(a)

\* tasks.py lines 37-39: get_video_duration, video.duration = duration,
\* video.save(update_fields=['duration'])
TaskDuration(w, outcome) ==
    /\ pc[w] = "duration"
    /\ outcome \in ProbeOutcomes(job[w])
    /\ LET a == job[w]
           raised == ProbeRaises(outcome) \/ ~Exists(a)
       IN /\ run' = [run EXCEPT ![w].allok = @ /\ outcome = "ok",
                                ![w].exc = IF raised THEN "Exception" ELSE @,
                                ![w].probe = outcome,
                                ![w].praised = ProbeRaises(outcome)]
          /\ inst' = [inst EXCEPT ![w].duration =
                         IF ProbeRaises(outcome) THEN @
                         ELSE DurationOf(outcome)]
          /\ video' = IF raised THEN video
                      ELSE [video EXCEPT ![a].duration = DurationOf(outcome)]
          /\ pc' = [pc EXCEPT ![w] = IF raised THEN "handler" ELSE "thumb"]
    /\ UNCHANGED <<hlsq, disk, queue, nextId, cache, job, idx, hist>>
    /\ UNCHANGED readerVars
    /\ UNCHANGED gw

\* utils.py generate_thumbnail lines 133-149: makedirs and the ffmpeg call;
\* CalledProcessError is logged and swallowed
ThumbnailTool(w, outcome) ==
    /\ pc[w] = "thumb"
    /\ outcome \in ToolOutcomes(job[w])
    /\ LET a == job[w]
       IN /\ disk' = IF outcome = "ok" THEN [disk EXCEPT ![a].genthumb = TRUE]
                     ELSE disk
          /\ run' = [run EXCEPT ![w].allok = @ /\ outcome = "ok",
                                ![w].exc = IF outcome = "notool" THEN "Exception" ELSE @,
                                ![w].thumb = outcome]
          /\ pc' = [pc EXCEPT ![w] = CASE outcome = "ok" -> "thumb_save"
                                       [] outcome = "fail" -> "hls_start"
                                       [] OTHER -> "handler"]
    /\ UNCHANGED <<video, hlsq, queue, nextId, cache, job, inst, idx, hist>>
    /\ UNCHANGED readerVars
    /\ UNCHANGED gw

\* utils.py generate_thumbnail lines 152-153: video.thumbnail = ...,
\* video.save(update_fields=['thumbnail'])
ThumbnailSave(w) ==
    /\ pc[w] = "thumb_save"
    /\ LET a == job[w]
       IN /\ inst' = [inst EXCEPT ![w].thumbnail = "generated"]
          /\ IF Exists(a)
             THEN /\ video' = [video EXCEPT ![a].thumbnail = "generated"]
                  /\ pc' = [pc EXCEPT ![w] = "hls_start"]
                  /\ UNCHANGED run
             ELSE /\ run' = [run EXCEPT ![w].exc = "Exception"]
                  /\ pc' = [pc EXCEPT ![w] = "handler"]
                  /\ UNCHANGED video
    /\ UNCHANGED <<hlsq, disk, queue, nextId, cache, job, idx, hist>>
    /\ UNCHANGED readerVars
    /\ UNCHANGED gw

\* The row video.save() writes for instance row i of video a
SavedRow(a, i) == TriggerRow(Inserted(i, Created(a)), Created(a))

\* The queue after video.save() of instance row i of video a
SavedQueue(a, i) == TriggerQueue(queue, a, i, Created(a))

\* utils.py lines 63-64: video.is_processing = True; video.save()
HlsStart(w) ==
    /\ pc[w] = "hls_start"
    /\ LET a == job[w]
           i == [inst[w] EXCEPT !.is_processing = TRUE]
       IN /\ video' = [video EXCEPT ![a] = SavedRow(a, i)]
          /\ queue' = SavedQueue(a, i)
          /\ inst' = [inst EXCEPT ![w] = SavedRow(a, i)]
          /\ hist' = SaveHist(hist, a, i, Created(a))
    /\ pc' = [pc EXCEPT ![w] = "hls_mkdir"]
    /\ UNCHANGED <<hlsq, disk, nextId, cache, job, idx, run>>
    /\ UNCHANGED readerVars
    /\ UNCHANGED gw

\* utils.py lines 66-69: os.makedirs(hls_dir, exist_ok=True)
HlsMakedirs(w) ==
    /\ pc[w] = "hls_mkdir"
    /\ disk' = [disk EXCEPT ![job[w]].hlsdir = TRUE]
    /\ idx' = [idx EXCEPT ![w] = 1]
    /\ pc' = [pc EXCEPT ![w] = "ffmpeg"]
    /\ UNCHANGED <<video, hlsq, queue, nextId, cache, job, inst, run, hist>>
    /\ UNCHANGED readerVars
    /\ UNCHANGED gw

\* mutant: a failed ffmpeg call is not noticed (check=True dropped)
AfterTranscodeUnchecked(outcome) ==
    IF outcome = "notool" THEN "handler" ELSE "create"

\* Where generate_hls_streams goes after the ffmpeg call of one tier
AfterTranscode(outcome) ==
    CASE outcome = "ok" -> "create"
      [] outcome = "fail" -> "hls_except"
      [] OTHER -> "handler"

\* utils.py lines 71-88: the ffmpeg call for QUALITY_SETTINGS entry idx
Transcode(w, outcome) ==
    /\ pc[w] = "ffmpeg"
    /\ outcome \in ToolOutcomes(job[w])
    /\ outcome = "ok" => disk[job[w]].hlsdir
    /\ LET a == job[w]
           t == Tiers[idx[w]]
       IN /\ disk' = IF outcome = "ok"
                     THEN [disk EXCEPT ![a].hlsfiles = @ \cup {t}]
                     ELSE disk
          /\ run' = [run EXCEPT
                ![w].allok = @ /\ outcome = "ok",
                ![w].ran = IF outcome = "ok" THEN @ \cup {t} ELSE @,
                ![w].failed = IF outcome = "fail" THEN idx[w] ELSE @,
                ![w].exc = IF outcome = "notool" THEN "Exception" ELSE @]
          /\ pc' = [pc EXCEPT ![w] = AfterTranscode(outcome)]
    /\ UNCHANGED <<video, hlsq, queue, nextId, cache, job, inst, idx, hist>>
    /\ UNCHANGED readerVars
    /\ UNCHANGED gw

\* utils.py lines 89-94: HLSQuality.objects.create(video=video, quality=...)
\* raises IntegrityError on a constraint violation
CreateRaises(a, t) == UniqueViolation(a, t) \/ ForeignKeyViolation(a)

CreateDescriptor(w) ==
    /\ pc[w] = "create"
    /\ LET a == job[w]
           t == Tiers[idx[w]]
       IN IF CreateRaises(a, t)
          THEN /\ run' = [run EXCEPT ![w].exc = "Exception",
                                     ![w].dup = UniqueViolation(a, t)]
               /\ pc' = [pc EXCEPT ![w] = "handler"]
               /\ UNCHANGED <<hlsq, idx>>
          ELSE /\ hlsq' = [hlsq EXCEPT ![a][t] = @ + 1]
               /\ IF idx[w] < NumTiers
                  THEN /\ idx' = [idx EXCEPT ![w] = @ + 1]
                       /\ pc' = [pc EXCEPT ![w] = "ffmpeg"]
                  ELSE /\ pc' = [pc EXCEPT ![w] = "hls_finish"]
                       /\ UNCHANGED idx
               /\ UNCHANGED run
    /\ UNCHANGED <<video, disk, queue, nextId, cache, job, inst, hist>>
    /\ UNCHANGED readerVars
    /\ UNCHANGED gw

\* utils.py lines 97-99: video.hls_path = ...; video.is_processing = False;
\* video.save()
HlsFinish(w) ==
    /\ pc[w] = "hls_finish"
    /\ LET a == job[w]
           i == [inst[w] EXCEPT !.hls_path = TRUE, !.is_processing = FALSE]
       IN /\ video' = [video EXCEPT ![a] = SavedRow(a, i)]
          /\ queue' = SavedQueue(a, i)
          /\ inst' = [inst EXCEPT ![w] = SavedRow(a, i)]
          /\ hist' = [SaveHist(hist, a, i, Created(a))
                        EXCEPT !.transitions = @ + 1]
    /\ run' = [run EXCEPT ![w].trans = hist.transitions + 1]
    /\ pc' = [pc EXCEPT ![w] = "final_save"]
    /\ UNCHANGED <<hlsq, disk, nextId, cache, job, idx>>
    /\ UNCHANGED readerVars
    /\ UNCHANGED gw

\* utils.py lines 101-104: except CalledProcessError: is_processing = False;
\* video.save()
HlsExcept(w) ==
    /\ pc[w] = "hls_except"
    /\ LET a == job[w]
           i == [inst[w] EXCEPT !.is_processing = FALSE]
       IN /\ video' = [video EXCEPT ![a] = SavedRow(a, i)]
          /\ queue' = SavedQueue(a, i)
          /\ inst' = [inst EXCEPT ![w] = SavedRow(a, i)]
          /\ hist' = SaveHist(hist, a, i, Created(a))
    /\ pc' = [pc EXCEPT ![w] = "final_save"]
    /\ UNCHANGED <<hlsq, disk, nextId, cache, job, idx, run>>
    /\ UNCHANGED readerVars
    /\ UNCHANGED gw

\* tasks.py lines 44-45: video.is_processing = False;
\* video.save(update_fields=['is_processing'])
FinalSave(w) ==
    /\ pc[w] = "final_save"
    /\ LET a == job[w]
       IN /\ inst' = [inst EXCEPT ![w].is_processing = FALSE]
          /\ IF Exists(a)
             THEN /\ video' = [video EXCEPT ![a].is_processing = FALSE]
                  /\ pc' = [pc EXCEPT ![w] = "cache_delete"]
                  /\ UNCHANGED run
             ELSE /\ run' = [run EXCEPT ![w].exc = "Exception"]
                  /\ pc' = [pc EXCEPT ![w] = "handler"]
                  /\ UNCHANGED video
    /\ UNCHANGED <<hlsq, disk, queue, nextId, cache, job, idx, hist>>
    /\ UNCHANGED readerVars
    /\ UNCHANGED gw

\* tasks.py lines 48-49: cache.delete('video_list_published')
CacheDelete(w) ==
    /\ pc[w] = "cache_delete"
    /\ cache' = NoPayload
    /\ hist' = [hist EXCEPT !.invalidated =
                   IF run[w].trans > @ THEN run[w].trans ELSE @]
    /\ pc' = [pc EXCEPT ![w] = "done"]
    /\ inst' = [inst EXCEPT ![w] = NoVideo]
    /\ idx' = [idx EXCEPT ![w] = 0]
    /\ UNCHANGED <<job, run>>
    /\ UNCHANGED storeVars
    /\ UNCHANGED readerVars
    /\ UNCHANGED gw

\* mutant: the handler does not reset the flag
HandlerKeepsFlag(a) == video

\* tasks.py lines 52-59: the table after the except Exception handler
\* (get, is_processing = False, save(update_fields); any error is swallowed)
HandlerVideo(a) ==
    IF Exists(a) THEN [video EXCEPT ![a].is_processing = FALSE] ELSE video

\* mutant: the handler has no inner try/except
HandlerExitUncaught(a) == IF Exists(a) THEN "done" ELSE "escaped"

\* tasks.py lines 54-59: how the handler ends; Video.DoesNotExist raised by
\* its own get is caught by the bare except (pass), so the task returns
HandlerExit(a) == "done"

Handler(w) ==
    /\ pc[w] = "handler"
    /\ video' = HandlerVideo(job[w])
    /\ run' = [run EXCEPT ![w].hmiss = ~Exists(job[w])]
    /\ inst' = [inst EXCEPT ![w] = NoVideo]
    /\ idx' = [idx EXCEPT ![w] = 0]
    /\ pc' = [pc EXCEPT ![w] = HandlerExit(job[w])]
    /\ UNCHANGED <<hlsq, disk, queue, nextId, cache, job, hist>>
    /\ UNCHANGED readerVars
    /\ UNCHANGED gw

WorkerStep(w) ==
    \/ TaskGet(w)
    \/ \E o \in {"ok", "fail", "notool", "unparsable"} : TaskDuration(w, o)
    \/ \E o \in {"ok", "fail", "notool"} : ThumbnailTool(w, o)
    \/ ThumbnailSave(w)
    \/ HlsStart(w)
    \/ HlsMakedirs(w)
    \/ \E o \in {"ok", "fail", "notool"} : Transcode(w, o)
    \/ CreateDescriptor(w)
    \/ HlsFinish(w)
    \/ HlsExcept(w)
    \/ FinalSave(w)
    \/ CacheDelete(w)
    \/ Handler(w)

\* ------------------------------------------------------- authentication
\* What a request carries in its access_token cookie: no cookie, a token
\* that does not validate (expired, forged), a valid token of a user
Credentials == {"none", "invalid", "valid"}

\* users/authentication.py JWTCookieAuthentication.authenticate: None without
\* the cookie (the request stays anonymous), InvalidToken raised by
\* get_validated_token, else the user of the token
Authenticate(cred) ==
    CASE cred = "none" -> "anonymous"
      [] cred = "invalid" -> "InvalidToken"
      [] OTHER -> "user"

\* mutant: the views carry no permission class (AllowAny)
PermittedAny(cred) == TRUE

\* @permission_classes([permissions.IsAuthenticated]) on video_list,
\* get_hls_manifest and get_hls_segment: the view body runs only for a user
Permitted(cred) == Authenticate(cred) = "user"

\* The 401 response of rest_framework for NotAuthenticated and for
\* AuthenticationFailed (the authenticator has a WWW-Authenticate header)
Unauthorized == [status |-> "unauthorized", detail |-> "401",
                 file |-> NoRequest, headers |-> NoRequest]

\* APIView.dispatch: initial() authenticates and checks the permissions
\* before the handler is called; resp is what the handler would return
Dispatch(cred, resp) == IF Permitted(cred) THEN resp ELSE Unauthorized

\* ------------------------------------------------------- the listing read
\* Video.objects.filter(is_published=True)
Published == {a \in Ids : Exists(a) /\ video[a].is_published}

\* mutant: order_by('created_at')
RECURSIVE OldestFirst(_)
OldestFirst(S) ==
    IF S = {} THEN <<>>
    ELSE LET m == CHOOSE x \in S :
                     \A y \in S : video[y].created_at >= video[x].created_at
         IN <<m>> \o OldestFirst(S \ {m})

\* .order_by('-created_at'): the ids of S, latest created_at first
RECURSIVE NewestFirst(_)
NewestFirst(S) ==
    IF S = {} THEN <<>>
    ELSE LET m == CHOOSE x \in S :
                     \A y \in S : video[y].created_at <= video[x].created_at
         IN <<m>> \o NewestFirst(S \ {m})

\* views.py lines 38-44: the query and VideoListSerializer(videos, many=True)
Payload ==
    [entries |-> [i \in 1..Cardinality(Published) |->
                     [id |-> NewestFirst(Published)[i],
                      thumbnail |-> video[NewestFirst(Published)[i]].thumbnail]],
     stamp |-> hist.transitions]

PayloadIds(p) ==
    IF p = NoPayload THEN {} ELSE {p.entries[i].id : i \in 1..Len(p.entries)}

\* The value kept under 'video_list_published'
Cached(data) == [data |-> data, timeout |-> CacheTimeout]

\* views.py lines 15-17 and 34-35: the permission check, then
\* videos_data = cache.get(cache_key)
ListGet(r, cred) ==
    /\ rpc[r] = "idle"
    /\ rdata' = [rdata EXCEPT ![r] =
                    Dispatch(cred, IF cache = NoPayload THEN NoPayload
                                   ELSE cache.data)]
    /\ rhist' = [rhist EXCEPT ![r] =
                    IF Permitted(cred)
                    THEN [NoRead EXCEPT !.floor = hist.invalidated,
                                        !.gone = {a \in hist.deleted : ~Exists(a)},
                                        !.cached = cache,
                                        !.cred = cred]
                    ELSE [NoRead EXCEPT !.cred = cred]]
    /\ rpc' = [rpc EXCEPT ![r] = IF Permitted(cred) /\ cache = NoPayload
                                 THEN "miss" ELSE "done"]
    /\ UNCHANGED <<cache, hist>>
    /\ UNCHANGED storeVars
    /\ UNCHANGED workerVars
    /\ UNCHANGED gw

\* views.py lines 37-44: on a miss, the query and the serializer
ListCompute(r) ==
    /\ rpc[r] = "miss"
    /\ rdata' = [rdata EXCEPT ![r] = Payload]
    /\ rhist' = [rhist EXCEPT
                    ![r].published = Published,
                    ![r].rank = [a \in Ids |->
                                   IF Exists(a) THEN video[a].created_at ELSE 0]]
    /\ rpc' = [rpc EXCEPT ![r] = "computed"]
    /\ UNCHANGED <<cache, hist>>
    /\ UNCHANGED storeVars
    /\ UNCHANGED workerVars
    /\ UNCHANGED gw

\* views.py line 45: cache.set(cache_key, videos_data, timeout=300)
ListSet(r) ==
    /\ rpc[r] = "computed"
    /\ cache' = Cached(rdata[r])
    /\ rhist' = [rhist EXCEPT ![r].stored = Cached(rdata[r])]
    /\ rpc' = [rpc EXCEPT ![r] = "done"]
    /\ UNCHANGED <<hist, rdata>>
    /\ UNCHANGED storeVars
    /\ UNCHANGED workerVars
    /\ UNCHANGED gw

\* views.py line 47: return Response(videos_data, status=200)
ListReturn(r) ==
    /\ rpc[r] = "done"
    /\ rpc' = [rpc EXCEPT ![r] = "idle"]
    /\ rdata' = [rdata EXCEPT ![r] = NoPayload]
    /\ rhist' = [rhist EXCEPT ![r] = NoRead]
    /\ UNCHANGED <<cache, hist>>
    /\ UNCHANGED storeVars
    /\ UNCHANGED workerVars
    /\ UNCHANGED gw

\* The 300 s timeout of the cache entry has passed
CacheExpire ==
    /\ cache # NoPayload
    /\ cache' = NoPayload
    /\ UNCHANGED hist
    /\ UNCHANGED storeVars
    /\ UNCHANGED workerVars
    /\ UNCHANGED readerVars
    /\ UNCHANGED gw

\* ------------------------------------------------------------- the admin
\* admin.py VideoAdmin: a staff user edits the 'Publication' fieldset of an
\* existing video; the save is an UPDATE, so post_save has created=False
AdminPublish(a, pub) ==
    /\ Exists(a)
    /\ video[a].is_published # pub
    /\ video' = [video EXCEPT ![a].is_published = pub]
    /\ queue' = TriggerQueue(queue, a, video[a], FALSE)
    /\ hist' = [SaveHist(hist, a, video[a], FALSE) EXCEPT !.pub[a] = {pub}]
    /\ UNCHANGED <<hlsq, disk, nextId, cache>>
    /\ UNCHANGED workerVars
    /\ UNCHANGED readerVars
    /\ UNCHANGED gw

\* ------------------------------------------------- the streaming gateway
\* File names below hls/video_{id}/ as a client can name them in one URL path
\* component (<str:...> matches any non-empty string without '/'):
\* f'{tier}.m3u8', a segment f'{tier}_000.ts', and '..'
ManifestName(t) == [kind |-> "m3u8", tier |-> t]
SegmentFile(t) == [kind |-> "ts", tier |-> t]
DotDot == [kind |-> "dotdot", tier |-> "none"]

\* resolution values a client sends: the first two tiers and a name that is
\* no tier
Resolutions == {Tiers[1], Tiers[2], "bogus"}
\* segment values a client sends: a segment and the manifest of the first
\* tier, and '..'
SegmentNames == {SegmentFile(Tiers[1]), ManifestName(Tiers[1]), DotDot}

\* What os.path.join(hls_dir, name) is on disk: ffmpeg writes {tier}.m3u8 and
\* {tier}_NNN.ts together; '..' resolves (to HLS_OUTPUT_PATH) only when
\* hls/video_{id} exists
Resolve(a, name) ==
    CASE name.kind \in {"m3u8", "ts"} ->
             IF name.tier \in disk[a].hlsfiles THEN "file" ELSE "none"
      [] OTHER -> IF disk[a].hlsdir THEN "dir" ELSE "none"

NotFound(detail) == [status |-> "not_found", detail |-> detail,
                     file |-> NoRequest, headers |-> NoRequest]
ServerError == [status |-> "server_error", detail |-> "IsADirectoryError",
                file |-> NoRequest, headers |-> NoRequest]
Content(name, ctype) == [status |-> "ok", detail |-> ctype, file |-> name,
                         headers |-> NoRequest]

\* The Origin header of a request: absent, or the origin of a page
Origins == {"absent", "https://app.example"}

\* mutant: the wildcard is sent whatever the request's Origin
EchoWildcard(origin) == "*"

\* request.headers.get('Origin', '*')
Echo(origin) == IF origin = "absent" THEN "*" ELSE origin

\* views.py get_hls_manifest lines 102-108: the headers set on the
\* FileResponse
ManifestHeaders(resolution, origin) ==
    [content_type |-> "application/vnd.apple.mpegurl",
     disposition |-> "inline", filename |-> ManifestName(resolution),
     allow_origin |-> Echo(origin), allow_credentials |-> "true",
     cache_control |-> "no-cache, no-store, must-revalidate",
     pragma |-> "no-cache", expires |-> "0", accept_ranges |-> "unset"]

\* views.py get_hls_segment lines 144-148
SegmentHeaders(origin) ==
    [content_type |-> "video/MP2T",
     disposition |-> "unset", filename |-> NoRequest,
     allow_origin |-> Echo(origin), allow_credentials |-> "true",
     cache_control |-> "public, max-age=31536000, immutable",
     pragma |-> "unset", expires |-> "unset", accept_ranges |-> "bytes"]

\* functions.py create_cors_response lines 79-91; disposition and
\* cache_control are "unset" for None
CreateCorsResponse(ctype, origin, disposition, filename, cache_control) ==
    [content_type |-> ctype,
     disposition |-> disposition, filename |-> filename,
     allow_origin |-> Echo(origin), allow_credentials |-> "true",
     cache_control |-> IF cache_control # "unset" THEN cache_control
                       ELSE "no-cache, no-store, must-revalidate",
     pragma |-> IF cache_control # "unset" THEN "unset" ELSE "no-cache",
     expires |-> IF cache_control # "unset" THEN "unset" ELSE "0",
     accept_ranges |-> "unset"]

\* api/views.py get_hls_manifest lines 64-65
ApiManifestHeaders(resolution, origin) ==
    CreateCorsResponse("application/vnd.apple.mpegurl", origin,
                       "inline", ManifestName(resolution), "unset")

\* api/views.py get_hls_segment lines 96-98
ApiSegmentHeaders(origin) ==
    [CreateCorsResponse("video/MP2T", origin, "unset", NoRequest,
                        "public, max-age=31536000, immutable")
        EXCEPT !.accept_ranges = "bytes"]

\* The response with the headers the view sets on a FileResponse
WithHeaders(resp, headers) ==
    IF resp.status = "ok" THEN [resp EXCEPT !.headers = headers] ELSE resp

\* mutant: the query does not filter on is_published
LookupAny(a) == Exists(a)

\* Video.objects.get(id=movie_id, is_published=True) finds a row
Lookup(a) == Exists(a) /\ video[a].is_published

\* FileResponse(open(path, 'rb'), content_type=...) after os.path.exists(path)
\* was true: open() of a directory raises IsADirectoryError, which no except
\* clause of the view catches
Open(a, name, ctype) ==
    IF Resolve(a, name) = "file" THEN Content(name, ctype) ELSE ServerError

\* views.py get_hls_manifest lines 93-111
GetManifest(a, resolution) ==
    IF ~Lookup(a) THEN NotFound("Video not found")
    ELSE IF Resolve(a, ManifestName(resolution)) = "none"
         THEN NotFound("Manifest not found")
         ELSE Open(a, ManifestName(resolution), "application/vnd.apple.mpegurl")

\* views.py get_hls_segment lines 135-151: the path is hls_dir/{segment};
\* resolution is not used
GetSegment(a, resolution, segment) ==
    IF ~Lookup(a) THEN NotFound("Video not found")
    ELSE IF Resolve(a, segment) = "none"
         THEN NotFound("Segment not found")
         ELSE Open(a, segment, "video/MP2T")

\* What was true when a request for video a, tier resolution and file name
\* was served (history)
Seen(a, resolution, name) ==
    [exists |-> Exists(a),
     published |-> Exists(a) /\ video[a].is_published,
     ready |-> Ready(a),
     recorded |-> resolution \in Descriptors(a),
     generated |-> resolution \in disk[a].hlsfiles,
     ondisk |-> Resolve(a, name) # "none"]

\* urls.py: GET video/<int:movie_id>/<str:resolution>/index.m3u8
ManifestRequest(cred, origin, a, resolution) ==
    /\ hist.requests < MaxRequests
    /\ gw' = [route |-> "hls_manifest", id |-> a, resolution |-> resolution,
              segment |-> ManifestName(resolution),
              cred |-> cred, origin |-> origin,
              resp |-> Dispatch(cred,
                          WithHeaders(GetManifest(a, resolution),
                                      ManifestHeaders(resolution, origin))),
              seen |-> Seen(a, resolution, ManifestName(resolution))]
    /\ hist' = [hist EXCEPT !.requests = @ + 1]
    /\ UNCHANGED cache
    /\ UNCHANGED storeVars
    /\ UNCHANGED workerVars
    /\ UNCHANGED readerVars

\* urls.py: GET video/<int:movie_id>/<str:resolution>/<str:segment>
SegmentRequest(cred, origin, a, resolution, segment) ==
    /\ hist.requests < MaxRequests
    /\ gw' = [route |-> "hls_segment", id |-> a, resolution |-> resolution,
              segment |-> segment,
              cred |-> cred, origin |-> origin,
              resp |-> Dispatch(cred,
                          WithHeaders(GetSegment(a, resolution, segment),
                                      SegmentHeaders(origin))),
              seen |-> Seen(a, resolution, segment)]
    /\ hist' = [hist EXCEPT !.requests = @ + 1]
    /\ UNCHANGED cache
    /\ UNCHANGED storeVars
    /\ UNCHANGED workerVars
    /\ UNCHANGED readerVars

\* ------------------------------------------------------------ specification
\* The pipeline: upload of a video, deletion, the queue with redelivery, the
\* workers and their crashes
Next ==
    \/ \E t \in BOOLEAN : CreateVideo(TRUE, t)
    \/ \E a \in Ids : DeleteVideo(a)
    \/ \E a \in Ids : Redeliver(a)
    \/ \E w \in Workers : Start(w)
    \/ \E w \in Workers : WorkerStep(w)
    \/ \E w \in Workers : Crash(w)

Spec == Init /\ [][Next]_vars

\* The listing: creation with and without a source file, deletion, single
\* delivery of each job, and the cached listing read
NextListing ==
    \/ \E f \in BOOLEAN, t \in BOOLEAN : CreateVideo(f, t)
    \/ \E a \in Ids : DeleteVideo(a)
    \/ \E w \in Workers : Start(w)
    \/ \E w \in Workers : WorkerStep(w)
    \/ \E r \in Readers : ListGet(r, "valid")
    \/ \E r \in Readers : ListCompute(r)
    \/ \E r \in Readers : ListSet(r)
    \/ \E r \in Readers : ListReturn(r)
    \/ CacheExpire

SpecListing == Init /\ [][NextListing]_vars

\* The pipeline under fair scheduling: no worker is killed, a queued job is
\* eventually taken by a free worker, and a worker inside the task eventually
\* takes its next step (every subprocess call returns); the video is
\* uploaded without a thumbnail
NextLive ==
    \/ CreateVideo(TRUE, FALSE)
    \/ \E a \in Ids : DeleteVideo(a)
    \/ \E a \in Ids : Redeliver(a)
    \/ \E w \in Workers : Start(w)
    \/ \E w \in Workers : WorkerStep(w)

SpecLive ==
    /\ Init /\ [][NextLive]_vars
    /\ WF_vars(\E w \in Workers : Start(w))
    /\ \A w \in Workers : WF_vars(WorkerStep(w))

\* The catalogue: videos without a source file (nothing to process), the
\* admin's publication switch, deletion, and the cached listing read
NextCatalogue ==
    \/ \E t \in BOOLEAN : CreateVideo(FALSE, t)
    \/ \E a \in Ids : DeleteVideo(a)
    \/ \E a \in Ids, pub \in BOOLEAN : AdminPublish(a, pub)
    \/ \E r \in Readers : ListGet(r, "valid")
    \/ \E r \in Readers : ListCompute(r)
    \/ \E r \in Readers : ListSet(r)
    \/ \E r \in Readers : ListReturn(r)
    \/ CacheExpire

SpecCatalogue == Init /\ [][NextCatalogue]_vars

\* The gateway: one uploaded video, single delivery of its job, the admin's
\* publication switch, deletion, and streaming requests
NextGateway ==
    \/ \E t \in BOOLEAN : CreateVideo(TRUE, t)
    \/ \E a \in Ids : DeleteVideo(a)
    \/ \E a \in Ids, pub \in BOOLEAN : AdminPublish(a, pub)
    \/ \E w \in Workers : Start(w)
    \/ \E w \in Workers : WorkerStep(w)
    \/ \E a \in Ids, r \in Resolutions : ManifestRequest("valid", "absent", a, r)
    \/ \E a \in Ids, r \in Resolutions, n \in SegmentNames :
           SegmentRequest("valid", "absent", a, r, n)

SpecGateway == Init /\ [][NextGateway]_vars

\* The HTTP interface: one uploaded video and its single run, and requests
\* to the three views with every kind of credential and Origin header
NextHttp ==
    \/ CreateVideo(TRUE, FALSE)
    \/ \E w \in Workers : Start(w)
    \/ \E w \in Workers : WorkerStep(w)
    \/ \E r \in Readers, c \in Credentials : ListGet(r, c)
    \/ \E r \in Readers : ListCompute(r)
    \/ \E r \in Readers : ListSet(r)
    \/ \E r \in Readers : ListReturn(r)
    \/ \E c \in Credentials, o \in Origins, a \in Ids, r \in Resolutions :
           ManifestRequest(c, o, a, r)
    \/ \E c \in Credentials, o \in Origins, a \in Ids, r \in Resolutions,
          n \in SegmentNames : SegmentRequest(c, o, a, r, n)

SpecHttp == Init /\ [][NextHttp]_vars

\* ------------------------------------------------------------------ claims
\* a run of w has ended (process_video_task returned)
Ended(w) == pc[w] = "done"
\* the tiers before index k of QUALITY_SETTINGS
TiersBefore(k) == {Tiers[i] : i \in 1..(k - 1)}

\* C1: when a run of process_video_task for an asset has ended (by success,
\* by a tool failure or through the exception handler) and the record still
\* exists, the stored is_processing is False, unless another delivery of the
\* same job is still running or a killed worker's job waits for redelivery.
C1_RunEndsNotProcessing ==
    \A w \in Workers :
        (/\ Ended(w)
         /\ Exists(job[w])
         /\ ActiveOn(job[w]) = {}
         /\ (Queued(job[w]) => job[w] \notin hist.crashed))
        => ~video[job[w]].is_processing

\* C1 witness: a run that transcoded a tier (so it had set is_processing)
\* ended through the exception handler with the record still there
C1_Witness ==
    \E w \in Workers :
        /\ Ended(w) /\ run[w].exc = "Exception" /\ run[w].ran # {}
        /\ Exists(job[w]) /\ ActiveOn(job[w]) = {}
        /\ ~video[job[w]].is_processing

\* C2: on a freshly created asset whose only run had the transcoder fail on
\* tier k, exactly the tiers before k have a descriptor, only those tiers were
\* transcoded, hls_path is not set and the asset is not processing (Failed).
C2_FailOnTierK ==
    \A w \in Workers :
        (/\ Ended(w)
         /\ run[w].failed > 0
         /\ Exists(job[w])
         /\ job[w] \notin hist.deleted
         /\ hist.started[job[w]] = 1)
        => /\ Descriptors(job[w]) = TiersBefore(run[w].failed)
           /\ \A t \in TierSet : hlsq[job[w]][t] <= 1
           /\ run[w].ran = TiersBefore(run[w].failed)
           /\ ~video[job[w]].hls_path
           /\ ~video[job[w]].is_processing

\* C2 witness: the only run of an asset failed on the second tier
C2_Witness ==
    \E w \in Workers :
        /\ Ended(w) /\ run[w].failed = 2
        /\ Exists(job[w]) /\ job[w] \notin hist.deleted
        /\ hist.started[job[w]] = 1
        /\ Descriptors(job[w]) = {"480p"}

\* C3: at most one HLSQuality row exists for every (video, quality) pair
C3_OneDescriptorPerTier ==
    \A a \in Ids : \A t \in TierSet : hlsq[a][t] <= 1

\* C3 witness: a run tried to create a descriptor that already existed
C3_Witness ==
    \E w \in Workers :
        /\ run[w].dup
        /\ \E t \in TierSet : hlsq[job[w]][t] = 1

\* C4: a run on an asset that was already Ready, alone and with every tool
\* succeeding, transcodes all three tiers and ends with the asset Ready and
\* exactly one descriptor per tier.
C4_RerunOnReady ==
    \A w \in Workers :
        (/\ Ended(w)
         /\ run[w].fromReady /\ run[w].allok /\ run[w].alone
         /\ Exists(job[w]) /\ job[w] \notin hist.deleted
         /\ job[w] \notin hist.crashed
         /\ ActiveOn(job[w]) = {} /\ ~Queued(job[w]))
        => /\ run[w].ran = TierSet
           /\ Ready(job[w])
           /\ OnePerTier(job[w])

\* C5: after a worker was killed with descriptors for some but not all tiers
\* persisted, a second run, alone and with every tool succeeding, transcodes
\* all tiers and ends with the asset Ready and one descriptor per tier.
C5_RerunAfterCrash ==
    \A w \in Workers :
        (/\ Ended(w)
         /\ run[w].fromPartial /\ run[w].allok /\ run[w].alone
         /\ Exists(job[w]) /\ job[w] \notin hist.deleted
         /\ ActiveOn(job[w]) = {} /\ ~Queued(job[w]))
        => /\ run[w].ran = TierSet
           /\ Ready(job[w])
           /\ OnePerTier(job[w])

\* C6: when the job of a fresh asset was delivered to two workers whose runs
\* overlapped, every tool succeeded and both runs have ended, the asset is
\* Ready with exactly one descriptor per tier.
C6_DuplicateDelivery ==
    \A w1 \in Workers : \A w2 \in Workers \ {w1} :
        (/\ Ended(w1) /\ Ended(w2)
         /\ job[w1] = job[w2]
         /\ ~run[w1].alone /\ ~run[w2].alone
         /\ run[w1].allok /\ run[w2].allok
         /\ hist.started[job[w1]] = 2
         /\ Exists(job[w1]) /\ job[w1] \notin hist.deleted
         /\ job[w1] \notin hist.crashed)
        => /\ Ready(job[w1])
           /\ OnePerTier(job[w1])

\* C7: a listing read that starts after a run has set the asset Ready and
\* deleted the cache key returns a payload computed at or after that
\* transition.
C7_ReadAfterInvalidation ==
    \A r \in Readers :
        (rpc[r] = "done" /\ rdata[r] # NoPayload)
        => rdata[r].stamp >= rhist[r].floor

\* C8: once the record of an asset has been deleted, no record with that id
\* exists again (primary keys are not reused by the ingress, so only a
\* worker's save could bring it back).
C8_DeletedStaysDeleted ==
    \A a \in Ids : a \in hist.deleted => ~Exists(a)

\* C9: a listing read that starts after an asset was deleted returns no entry
\* with that asset's id.
C9_ListingOmitsDeleted ==
    \A r \in Readers :
        rpc[r] = "done"
        => \A a \in rhist[r].gone : Exists(a) \/ a \notin PayloadIds(rdata[r])

\* C10: after an asset is deleted its source file, its thumbnail file and its
\* output directory hls/video_{id} are not on disk.
C10_DeleteRemovesFiles ==
    \A a \in Ids :
        (a \in hist.deleted /\ ~Exists(a))
        => /\ ~disk[a].source
           /\ ~disk[a].upthumb
           /\ ~disk[a].genthumb
           /\ ~disk[a].hlsdir

\* C11: a manifest or segment request for an asset whose published flag is
\* false is answered not-found, whatever tier and segment name it carries and
\* whether or not the file is on disk, and the answer equals the one for an id
\* that has no record.
C11_UnpublishedNotFound ==
    /\ gw # NoRequest =>
          (~gw.seen.published => gw.resp = NotFound("Video not found"))
    /\ \A a \in Ids : ~(Exists(a) /\ video[a].is_published) =>
          /\ \A r \in Resolutions :
                GetManifest(a, r) = NotFound("Video not found")
          /\ \A r \in Resolutions, n \in SegmentNames :
                GetSegment(a, r, n) = NotFound("Video not found")

\* C11 witness: a request for an existing, unpublished asset whose requested
\* file was on disk has been answered
C11_Witness ==
    /\ gw # NoRequest
    /\ gw.seen.exists /\ ~gw.seen.published
    /\ gw.seen.ondisk
    /\ gw.resp.status = "not_found"

\* C12: a segment request whose tier was never generated for the asset (no
\* files and no descriptor of that tier) is answered not-found.
C12_SegmentOfMissingTier ==
    (/\ gw # NoRequest
     /\ gw.route = "hls_segment"
     /\ ~gw.seen.generated /\ ~gw.seen.recorded)
    => gw.resp.status = "not_found"

\* C13: a file is served only when the requested tier has a descriptor of
\* that asset, and the file served is that tier's manifest on the manifest
\* route and a segment of that tier on the segment route.
C13_ServesOnlyRecordedTier ==
    (gw # NoRequest /\ gw.resp.status = "ok")
    => /\ gw.seen.recorded
       /\ gw.route = "hls_manifest" => gw.resp.file = ManifestName(gw.resolution)
       /\ gw.route = "hls_segment" => gw.resp.file = SegmentFile(gw.resolution)

\* C14: file content is returned only for an asset that was Ready and
\* published when the request was served.
C14_ServesOnlyReady ==
    (gw # NoRequest /\ gw.resp.status = "ok")
    => gw.seen.ready /\ gw.seen.published

\* C15: in the only run for an asset created with an uploaded thumbnail, the
\* thumbnail generator is not invoked (it has written no file) and the
\* thumbnail field still names the uploaded file when the run has ended.
C15_UploadedThumbnailKept ==
    \A w \in Workers :
        (/\ Ended(w)
         /\ hist.started[job[w]] = 1
         /\ Exists(job[w]) /\ job[w] \notin hist.deleted
         /\ disk[job[w]].upthumb)
        => /\ ~disk[job[w]].genthumb
           /\ video[job[w]].thumbnail = "uploaded"

\* C16: when the only run of an asset created without a thumbnail has ended,
\* every tool having succeeded, the record has its duration, the generated
\* thumbnail, hls_path, is Ready, has exactly one descriptor for each of the
\* three tiers, and cache.delete was called after the Ready transition.
C16_SuccessfulRun ==
    \A w \in Workers :
        (/\ Ended(w)
         /\ run[w].allok
         /\ hist.started[job[w]] = 1
         /\ Exists(job[w]) /\ job[w] \notin hist.deleted
         /\ ~disk[job[w]].upthumb)
        => /\ video[job[w]].duration = "secs"
           /\ video[job[w]].thumbnail = "generated"
           /\ disk[job[w]].genthumb
           /\ run[w].ran = TierSet
           /\ OnePerTier(job[w])
           /\ video[job[w]].hls_path
           /\ Ready(job[w])
           /\ run[w].trans > 0
           /\ hist.invalidated >= run[w].trans

\* C16 witness: such a run has ended while a listing payload computed before
\* the transition had been cached during the run
C16_Witness ==
    \E w \in Workers :
        /\ Ended(w) /\ run[w].allok /\ run[w].ran = TierSet
        /\ hist.started[job[w]] = 1
        /\ Ready(job[w]) /\ job[w] \notin hist.deleted
        /\ ~disk[job[w]].upthumb
        /\ cache = NoPayload
        /\ \E r \in Readers : rpc[r] = "done" /\ rhist[r].stored # NoPayload
                              /\ rdata[r].stamp < run[w].trans

C18_NoExceptionEscapes ==
    \A w \in Workers :
        /\ pc[w] # "escaped"
        /\ Ended(w) => run[w].exc \in {"none", "DoesNotExist", "Exception"}

\* C18 witness: a run whose exception handler found the record missing has
\* returned, and so has a run that hit an existing descriptor
C18_Witness ==
    /\ \E w \in Workers : Ended(w) /\ run[w].exc = "Exception" /\ run[w].hmiss
    /\ \E w \in Workers : Ended(w) /\ run[w].exc = "Exception" /\ run[w].dup

\* C20: a listing read that found the key returns the cached payload; one
\* that missed returns exactly the published videos, latest created_at first,
\* and has stored that payload under the key with timeout 300.
C20_ListingRead ==
    \A r \in Readers :
        rpc[r] = "done" =>
            IF rhist[r].cached # NoPayload
            THEN /\ rdata[r] = rhist[r].cached.data
                 /\ rhist[r].stored = NoPayload
            ELSE /\ PayloadIds(rdata[r]) = rhist[r].published
                 /\ Len(rdata[r].entries) = Cardinality(rhist[r].published)
                 /\ \A i \in 1..Len(rdata[r].entries) :
                       \A j \in 1..Len(rdata[r].entries) :
                          i < j => rhist[r].rank[rdata[r].entries[i].id]
                                   > rhist[r].rank[rdata[r].entries[j].id]
                 /\ rhist[r].stored = [data |-> rdata[r], timeout |-> 300]

\* C20 witness: a read that missed the cache has computed, stored and
\* returned a payload of two published videos
C20_Witness ==
    \E r \in Readers :
        /\ rpc[r] = "done"
        /\ rhist[r].cached = NoPayload
        /\ Len(rdata[r].entries) = 2

\* C19: under fair scheduling, whenever the record of an asset is Processing
\* (is_processing True), it is later not Processing: Ready or Failed, or
\* deleted.
C19_EventuallyNotProcessing ==
    \A a \in Ids :
        (Exists(a) /\ video[a].is_processing)
        ~> (~Exists(a) \/ ~video[a].is_processing)

\* C19 witness: an asset that was Processing has ended Failed because the
\* transcoder binary was missing (the handler reset the flag)
C19_Witness ==
    \E w \in Workers :
        /\ Ended(w) /\ run[w].exc = "Exception" /\ run[w].ran = {}
        /\ Exists(job[w]) /\ job[w] \notin hist.deleted
        /\ ~video[job[w]].is_processing /\ ~video[job[w]].hls_path
        /\ ActiveOn(job[w]) = {} /\ ~Queued(job[w])

\* the steps of a run before generate_hls_streams has saved anything
EarlySteps == {"get", "duration", "thumb", "thumb_save", "hls_start"}

\* no run for a has got past its early steps: every delivery started so far
\* is still in one of them
Untouched(a) ==
    /\ a \notin hist.crashed
    /\ hist.started[a] =
           Cardinality({w \in Workers : job[w] = a /\ pc[w] \in EarlySteps})

\* C23: an asset created with a source file is never seen Uploaded
\* (is_processing False) with its job queued or running: from its creation
\* until a run for it has got past its early steps, the stored is_processing
\* is True and its job is queued or running.
C23_FlagBeforeQueue ==
    \A a \in Ids :
        (/\ Exists(a) /\ a \notin hist.deleted
         /\ video[a].video_file
         /\ Untouched(a))
        => /\ video[a].is_processing
           /\ Queued(a) \/ ActiveOn(a) # {}

\* C23 witness: the job of a created asset has been taken from the queue and
\* its run is about to enter generate_hls_streams, the flag still True
C23_Witness ==
    \E w \in Workers :
        /\ pc[w] = "hls_start"
        /\ Exists(job[w]) /\ job[w] \notin hist.deleted
        /\ Untouched(job[w])
        /\ hist.enq[job[w]] = 1
        /\ video[job[w]].is_processing

\* C24: when the probe or the thumbnail process has exited with an error in
\* the only run for an asset, the run ends Failed: no tier was transcoded, the
\* run made no Ready transition, hls_path is not set and the asset is not
\* Ready.
C24_EarlyToolErrorEndsFailed ==
    \A w \in Workers :
        (/\ Ended(w)
         /\ run[w].probe = "fail" \/ run[w].thumb = "fail"
         /\ hist.started[job[w]] = 1
         /\ Exists(job[w]) /\ job[w] \notin hist.deleted)
        => /\ run[w].ran = {}
           /\ run[w].trans = 0
           /\ ~video[job[w]].hls_path
           /\ ~Ready(job[w])

\* C25: get_video_duration does not raise when the tool exits non-zero or
\* prints output that cannot be parsed, and right after the call the duration
\* held by the run is the whole seconds on success and None otherwise.
C25_ProbeReturnsOrNone ==
    \A w \in Workers :
        run[w].probe \in {"ok", "fail", "unparsable"}
        => /\ ~run[w].praised
           /\ pc[w] = "thumb" => inst[w].duration = DurationOf(run[w].probe)

\* C26: when ffprobe is not installed get_video_duration raises; the run goes
\* to the exception handler without invoking the thumbnail or the transcode
\* tool and, being the only run of an existing asset, ends Failed; a non-zero
\* exit does not raise.
C26_MissingProbeRaises ==
    \A w \in Workers :
        /\ run[w].probe = "notool"
           => /\ run[w].praised
              /\ pc[w] \in {"handler", "done"}
              /\ run[w].thumb = "none"
              /\ run[w].ran = {}
              /\ (/\ Ended(w) /\ hist.started[job[w]] = 1
                  /\ Exists(job[w]) /\ job[w] \notin hist.deleted)
                 => /\ ~video[job[w]].is_processing
                    /\ ~video[job[w]].hls_path
                    /\ ~Ready(job[w])
        /\ run[w].probe = "fail" => ~run[w].praised

\* C26 witness: the only run of an existing asset has ended after the probe
\* binary was missing, and the asset is Failed
C26_Witness ==
    \E w \in Workers :
        /\ Ended(w) /\ run[w].probe = "notool" /\ run[w].exc = "Exception"
        /\ hist.started[job[w]] = 1
        /\ Exists(job[w]) /\ job[w] \notin hist.deleted
        /\ ~video[job[w]].is_processing /\ video[job[w]].duration = "none"

\* C27: every descriptor refers to an existing asset, and an asset that was
\* deleted has no descriptor afterwards, whatever a worker still running for
\* it does.
C27_NoDescriptorOfDeleted ==
    \A a \in Ids :
        (~Exists(a) \/ a \in hist.deleted) => Descriptors(a) = {}

\* C29: whenever the stored hls_path of an asset is set, a descriptor exists
\* for each of the three tiers.
C29_PathImpliesAllTiers ==
    \A a \in Ids :
        (Exists(a) /\ video[a].hls_path)
        => \A t \in TierSet : hlsq[a][t] > 0

\* C30: whenever a worker is inside a run for an existing asset and has not
\* yet reached the closing steps of the task, the stored is_processing is
\* True.
C30_ProcessingWhileRunning ==
    \A w \in Workers :
        (/\ Active(w)
         /\ pc[w] \notin {"final_save", "cache_delete", "handler"}
         /\ Exists(job[w]))
        => video[job[w]].is_processing

\* C28: the published flag an administrator has last committed for an asset
\* is the stored one for as long as the asset is not deleted, whatever a run
\* for the asset does in the meantime.
C28_ConcurrentChangeKept ==
    \A a \in Ids :
        (Exists(a) /\ a \notin hist.deleted)
        => \A pub \in hist.pub[a] : video[a].is_published = pub

\* C21: a request to the listing, the manifest or the segment view that
\* carries no valid credential gets the 401 response, with no listing data,
\* no file and no file headers; the listing request has read and stored no
\* cache entry; and the step that serves such a request leaves the cache, the
\* files and the tables as they were.
C21_UnauthenticatedRejected ==
    /\ [](/\ (gw # NoRequest /\ gw.cred # "valid") => gw.resp = Unauthorized
          /\ \A r \in Readers :
                rhist[r].cred \in {"none", "invalid"}
                => /\ rpc[r] = "done"
                   /\ rdata[r] = Unauthorized
                   /\ rhist[r].cached = NoPayload
                   /\ rhist[r].published = {}
                   /\ rhist[r].stored = NoPayload)
    /\ [][(\/ gw' # gw /\ gw'.cred # "valid"
           \/ \E r \in Readers : /\ rhist'[r] # rhist[r]
                                 /\ rhist'[r].cred \in {"none", "invalid"})
          => UNCHANGED <<cache, disk, video, hlsq, queue>>]_vars

\* C21 witness: a segment request without the cookie was rejected although
\* the video was published and the file was on disk, and a listing request
\* with an invalid token was rejected while the cache held a payload
C21_Witness ==
    /\ gw # NoRequest
    /\ gw.route = "hls_segment" /\ gw.cred = "none"
    /\ gw.seen.published /\ gw.seen.ondisk
    /\ gw.resp.status = "unauthorized"
    /\ cache # NoPayload
    /\ \E r \in Readers : /\ rpc[r] = "done" /\ rhist[r].cred = "invalid"
                          /\ rdata[r] = Unauthorized

\* C22: a served manifest has the playlist content type, Content-Disposition
\* inline and Cache-Control no-cache, no-store, must-revalidate; a served
\* segment has content type video/MP2T, Accept-Ranges bytes and Cache-Control
\* public, max-age=31536000, immutable; both carry the request's Origin (or *)
\* as allowed origin with credentials allowed; and the headers built by
\* videos/api/views.py for the same request are the same.
C22_ResponseHeaders ==
    (gw # NoRequest /\ gw.resp.status = "ok")
    => /\ gw.resp.headers.allow_origin =
              (IF gw.origin = "absent" THEN "*" ELSE gw.origin)
       /\ gw.resp.headers.allow_credentials = "true"
       /\ gw.route = "hls_manifest"
          => /\ gw.resp.headers.content_type = "application/vnd.apple.mpegurl"
             /\ gw.resp.headers.disposition = "inline"
             /\ gw.resp.headers.cache_control =
                    "no-cache, no-store, must-revalidate"
             /\ gw.resp.headers = ApiManifestHeaders(gw.resolution, gw.origin)
       /\ gw.route = "hls_segment"
          => /\ gw.resp.headers.content_type = "video/MP2T"
             /\ gw.resp.headers.accept_ranges = "bytes"
             /\ gw.resp.headers.cache_control =
                    "public, max-age=31536000, immutable"
             /\ gw.resp.headers = ApiSegmentHeaders(gw.origin)

\* C22 witness: a segment was served to a request that carried an Origin
\* header
C22_Witness ==
    /\ gw # NoRequest
    /\ gw.route = "hls_segment" /\ gw.resp.status = "ok"
    /\ gw.resp.file.kind = "ts"
    /\ gw.origin # "absent"
    /\ gw.resp.headers.allow_origin = gw.origin

====
